---- MODULE Spec2Model ----
(***************************************************************************)
(* Model of runner.py, the entry point of the service: the construction of *)
(* the certificate trust store, the resolution of the TLS security profile *)
(* and the start-up sequence of the __main__ block with its background     *)
(* index-load thread.                                                      *)
(*                                                                         *)
(* A file is a sequence of blocks.  A block is either a PEM certificate    *)
(* block (identified by the DER encoding of its certificate) or text that  *)
(* the PEM parser skips (comments, blank lines).  Reading a file gives its *)
(* raw blocks; parsing gives certificates only.                            *)
(***************************************************************************)
EXTENDS Integers, Sequences, FiniteSets, TLC

\* ------------------------------------------------------------------ bounds
\* certificates are 1..MaxCert (their DER encodings)
MaxCert == 3
\* the longest extra_ca list
MaxExtras == 2
\* the largest configured max_workers
MaxWorkers == 2
\* process starts (the first start and the restarts)
MaxRuns == 2

\* -------------------------------------------------------- program constants
PLAIN_PORT == 8080
TLS_PORT == 8443
DEFAULT_SSL_VERSION == "DEFAULT_SSL_VERSION"
DEFAULT_SSL_CIPHERS == <<"DEFAULT_SSL_CIPHERS">>

VARIABLES
    yaml,        \* the configuration file's content (input, never written)
    fileAtStart, \* whether the destination file existed when this process started
    pc,          \* position of the main thread in __main__
    config,      \* the loaded configuration (config.loaded is FALSE before the load)
    env,         \* os.environ: the variables this module sets
    dest,        \* the destination trust-store file
    idx,         \* generate_certificates_file: extras processed so far
    log,         \* warnings emitted by add_ca_to_certificates_store
    error,       \* the exception that ended the main thread, if any
    thread,      \* rag_index_thread: "none", "running", "done", "failed"
    server,      \* the arguments of uvicorn.run and whether the server is up
    exitCode,    \* the process's exit code: -1 while it lives
    runs,        \* process starts so far
    trace,       \* the start-up steps this process has completed, in order
    firstStore,  \* the store left by the first completed certificate step
    spawned,     \* threads this process has started
    k8s_client   \* K8sClientSingleton: "uninitialized" or "initialized"

vars == <<yaml, fileAtStart, pc, config, env, dest, idx, log, error, thread,
          server, exitCode, runs, trace, firstStore, spawned, k8s_client>>

\* ----------------------------------------------------------------- helpers
Range(s) == {s[i] : i \in 1..Len(s)}

SeqsUpTo(S, n) == UNION {[1..k -> S] : k \in 0..n}

\* ------------------------------------------------------------------- files
Pem(c) == [t |-> "pem", der |-> c]
Text == [t |-> "text", der |-> 0]

Certs == 1..MaxCert

File(bs) == [readable |-> TRUE, blocks |-> bs]
Unreadable == [readable |-> FALSE, blocks |-> <<>>]

\* what an operator may put at an extra_ca path: nothing readable, an empty
\* file, text only, one certificate, a commented certificate, a chain of two
ExtraFiles ==
    {Unreadable, File(<<>>), File(<<Text>>)}
    \cup {File(<<Pem(c)>>) : c \in Certs}
    \cup {File(<<Text, Pem(c)>>) : c \in Certs}
    \cup {File(<<Pem(c), Pem(d)>>) : c, d \in Certs}

\* certifi.where(): the base bundle, comments and certificates, no duplicates
BaseBundle == <<Text, Pem(1)>>

NoFile == [exists |-> FALSE, blocks |-> <<>>]
Stored(bs) == [exists |-> TRUE, blocks |-> bs]
\* a destination file left by something else than this program
StaleFile == Stored(<<Pem(MaxCert)>>)

\* x509.load_pem_x509_certificates: every certificate of the data, in order
load_pem_x509_certificates(data) ==
    LET pems == SelectSeq(data, LAMBDA b : b.t = "pem")
    IN  [i \in 1..Len(pems) |-> pems[i].der]

\* whether the data holds a certificate at all (the loaders raise ValueError
\* when it holds none)
HasCertificate(data) == \E i \in 1..Len(data) : data[i].t = "pem"

\* x509.load_pem_x509_certificate: the first certificate of the data
load_pem_x509_certificate(data) == load_pem_x509_certificates(data)[1]

\* ---------------------------------------------------------- configuration
\* tls_security_profile: present is FALSE for None; the string "None" stands
\* for a field that is None
Profile(ty, ver, cs) ==
    [present |-> TRUE, profile_type |-> ty, min_tls_version |-> ver, ciphers |-> cs]
NoProfile ==
    [present |-> FALSE, profile_type |-> "None", min_tls_version |-> "None",
     ciphers |-> <<>>]

\* reference_content: present is FALSE for None; "" is an unset path
RefContent(path) == [present |-> TRUE, embeddings_model_path |-> path]
NoRefContent == [present |-> FALSE, embeddings_model_path |-> ""]

OLSConfig(extras, workers, local, notls, prof, ref, k8s) ==
    [extra_ca |-> extras, max_workers |-> workers, run_on_localhost |-> local,
     disable_tls |-> notls, tls_security_profile |-> prof,
     reference_content |-> ref, k8s_auth |-> k8s]

EmptyConfig == OLSConfig(<<>>, 1, FALSE, FALSE, NoProfile, NoRefContent, FALSE)
NotLoaded == [loaded |-> FALSE, ols_config |-> EmptyConfig]
Loaded(c) == [loaded |-> TRUE, ols_config |-> c]

\* ------------------------------------------------------ results, exceptions
Ret(v) == [ok |-> TRUE, value |-> v, exc |-> "none"]
Raise(e, v) == [ok |-> FALSE, value |-> v, exc |-> e]

NoError == [type |-> "none", raised_by |-> "", path |-> 0]
\* raised_by: the function the exception comes from; path: the index in
\* extra_ca of the path the exception names, 0 when it names none
Exception(ty, fn, p) == [type |-> ty, raised_by |-> fn, path |-> p]

\* ----------------------------------------------------------- ols.utils.tls
TLSProfiles == {"OldType", "IntermediateType", "ModernType", "Custom"}
TLSProtocolVersions ==
    {"VersionTLS10", "VersionTLS11", "VersionTLS12", "VersionTLS13"}

\* the policy table: each named profile's default minimum version
MIN_TLS_VERSIONS(ty) ==
    CASE ty = "OldType" -> "VersionTLS10"
      [] ty = "IntermediateType" -> "VersionTLS12"
      [] ty = "ModernType" -> "VersionTLS13"
      [] OTHER -> "None"

\* the policy table: each named profile's fixed cipher list
TLS_CIPHERS(ty) ==
    CASE ty = "OldType" -> <<"AES128-GCM", "AES256-CBC", "DES-CBC3">>
      [] ty = "IntermediateType" -> <<"AES128-GCM", "AES256-GCM">>
      [] ty = "ModernType" -> <<"TLS_AES_128", "TLS_AES_256">>
      [] OTHER -> <<>>

\* tls.min_tls_version: the explicit version if set, else the profile's default
min_tls_version(specified, ty) ==
    IF ty \notin TLSProfiles THEN Raise("ConfigurationError", "")
    ELSE IF specified # "None" THEN Ret(specified)
    ELSE Ret(MIN_TLS_VERSIONS(ty))

\* tls.ssl_tls_version: the ssl.TLSVersion member of a protocol version
ssl_tls_version(ver) ==
    CASE ver = "VersionTLS10" -> Ret("TLSv1")
      [] ver = "VersionTLS11" -> Ret("TLSv1_1")
      [] ver = "VersionTLS12" -> Ret("TLSv1_2")
      [] ver = "VersionTLS13" -> Ret("TLSv1_3")
      [] OTHER -> Raise("ConfigurationError", "")

\* the cipher string: the names joined by ":"
RECURSIVE Join(_)
Join(cs) ==
    IF Len(cs) <= 1 THEN cs ELSE <<Head(cs), ":">> \o Join(Tail(cs))

\* tls.ciphers_as_string
ciphers_as_string(cs, ty) ==
    IF ty \notin TLSProfiles THEN Raise("ConfigurationError", <<>>)
    ELSE IF ty = "Custom" THEN Ret(Join(cs))
    ELSE Ret(Join(TLS_CIPHERS(ty)))

\* ---------------------------------------------------- TLS profile resolver
IsDefaultProfile(sec_profile) ==
    ~sec_profile.present \/ sec_profile.profile_type = "None"

\* a resolver that falls back to the default when the lookup fails
get_ssl_version_fallback(sec_profile) ==
    LET v == min_tls_version(sec_profile.min_tls_version, sec_profile.profile_type)
    IN  IF IsDefaultProfile(sec_profile) \/ ~v.ok THEN Ret(DEFAULT_SSL_VERSION)
        ELSE ssl_tls_version(v.value)

get_ssl_version(sec_profile) ==
    IF IsDefaultProfile(sec_profile) THEN Ret(DEFAULT_SSL_VERSION)
    ELSE LET v == min_tls_version(sec_profile.min_tls_version,
                                  sec_profile.profile_type)
         IN  IF ~v.ok THEN v ELSE ssl_tls_version(v.value)

\* a resolver that looks the ciphers up whenever a profile is given
get_ciphers_profile_lookup(sec_profile) ==
    IF ~sec_profile.present THEN Ret(DEFAULT_SSL_CIPHERS)
    ELSE ciphers_as_string(sec_profile.ciphers, sec_profile.profile_type)

get_ciphers(sec_profile) ==
    IF IsDefaultProfile(sec_profile) THEN Ret(DEFAULT_SSL_CIPHERS)
    ELSE ciphers_as_string(sec_profile.ciphers, sec_profile.profile_type)

\* ------------------------------------------------ certificate store builder
\* a copy that opens the destination for appending
copyfile_appending(src, dst) == Stored(dst.blocks \o src)

\* shutil.copyfile: the destination becomes a copy of the source, whatever it
\* held before
copyfile(src, dst) == Stored(src)

\* add_ca_to_certificates_store on the certificate file at index i of
\* extra_ca: the exception it raises, if any, the store it leaves and whether
\* it warned of a duplicate
AddResult(e, st, w) == [error |-> e, store |-> st, warned |-> w]
AddRaises(ty, p, st) ==
    AddResult(Exception(ty, "add_ca_to_certificates_store", p), st, FALSE)

\* a variant that logs a file it cannot load and goes on
add_ca_skipping_bad_file(i, cert_file, store) ==
    IF ~cert_file.readable \/ ~HasCertificate(cert_file.blocks)
    THEN AddResult(NoError, store, FALSE)
    ELSE IF load_pem_x509_certificate(cert_file.blocks)
                \in Range(load_pem_x509_certificates(store.blocks))
    THEN AddResult(NoError, store, TRUE)
    ELSE AddResult(NoError, Stored(store.blocks \o cert_file.blocks), FALSE)

\* a variant without the membership test
add_ca_always_appending(i, cert_file, store) ==
    IF ~cert_file.readable THEN AddRaises("OSError", i, store)
    ELSE IF ~HasCertificate(cert_file.blocks) THEN AddRaises("ValueError", 0, store)
    ELSE AddResult(NoError, Stored(store.blocks \o cert_file.blocks), FALSE)

\* a variant that writes the parsed certificate back instead of the bytes read
add_ca_writing_parsed_cert(i, cert_file, store) ==
    IF ~cert_file.readable THEN AddRaises("OSError", i, store)
    ELSE IF ~HasCertificate(cert_file.blocks) THEN AddRaises("ValueError", 0, store)
    ELSE IF load_pem_x509_certificate(cert_file.blocks)
                \in Range(load_pem_x509_certificates(store.blocks))
    THEN AddResult(NoError, store, TRUE)
    ELSE AddResult(NoError,
                   Stored(Append(store.blocks,
                                 Pem(load_pem_x509_certificate(cert_file.blocks)))),
                   FALSE)

add_ca_to_certificates_store(i, cert_file, store) ==
    \* lines 63-65: open() raises an OSError that names cert_path; the parser
    \* raises a ValueError that names no path
    IF ~cert_file.readable THEN AddRaises("OSError", i, store)
    ELSE IF ~HasCertificate(cert_file.blocks) THEN AddRaises("ValueError", 0, store)
    \* lines 68-70: the same for the store itself
    ELSE IF ~store.exists THEN AddRaises("OSError", 0, store)
    ELSE IF ~HasCertificate(store.blocks) THEN AddRaises("ValueError", 0, store)
    ELSE LET new_certificate_data == cert_file.blocks
             new_cert == load_pem_x509_certificate(new_certificate_data)
             certifi_certs == load_pem_x509_certificates(store.blocks)
         IN  \* lines 73-80
             IF new_cert \in Range(certifi_certs)
             THEN AddResult(NoError, store, TRUE)
             ELSE AddResult(NoError,
                            Stored(store.blocks \o new_certificate_data), FALSE)

\* ------------------------------------------------------------ environment
Unset == "<unset>"
EnvNames == {"GRADIO_ANALYTICS_ENABLED", "MPLCONFIGDIR", "TRANSFORMERS_CACHE",
             "TRANSFORMERS_OFFLINE"}
EmptyEnv == [n \in EnvNames |-> Unset]

\* configure_gradio_ui_envs
configure_gradio_ui_envs(e) ==
    [e EXCEPT !["GRADIO_ANALYTICS_ENABLED"] = "false",
              !["MPLCONFIGDIR"] = "<tmp>/matplotlib"]

\* ols_config is None
NoOLSConfig == [none |-> TRUE]

\* a variant that forgets the offline flag
configure_hugging_face_envs_cache_only(ols_config, e) ==
    IF /\ ols_config # NoOLSConfig
       /\ ols_config.reference_content.present
       /\ ols_config.reference_content.embeddings_model_path # ""
    THEN [e EXCEPT !["TRANSFORMERS_CACHE"] =
                       ols_config.reference_content.embeddings_model_path]
    ELSE e

\* configure_hugging_face_envs: the four conjuncts of lines 24-27 (a
\* reference_content that is None has no embeddings_model_path attribute)
configure_hugging_face_envs(ols_config, e) ==
    IF /\ ols_config # NoOLSConfig
       /\ ols_config.reference_content.present
       /\ ols_config.reference_content.embeddings_model_path # ""
    THEN [e EXCEPT !["TRANSFORMERS_CACHE"] =
                       ols_config.reference_content.embeddings_model_path,
                   !["TRANSFORMERS_OFFLINE"] = "1"]
    ELSE e

\* ------------------------------------------------------------------ server
NoServer == [up |-> FALSE, host |-> "", port |-> 0, workers |-> 0,
             ssl_version |-> "", ssl_ciphers |-> <<>>]

\* start_uvicorn: the host, port and workers handed to uvicorn.run
uvicorn_host(ols_config) ==
    IF ols_config.run_on_localhost THEN "localhost" ELSE "0.0.0.0"

\* a port that is plain only when the service also runs on localhost
uvicorn_port_both_flags(ols_config) ==
    IF ols_config.run_on_localhost /\ ols_config.disable_tls
    THEN PLAIN_PORT ELSE TLS_PORT

uvicorn_port(ols_config) ==
    IF ols_config.disable_tls THEN PLAIN_PORT ELSE TLS_PORT

uvicorn_workers(ols_config) == ols_config.max_workers

\* use_k8s_auth
use_k8s_auth(ols_config) == ols_config.k8s_auth

\* ------------------------------------------------------------------- steps
Abort(e) ==
    /\ pc' = "aborted"
    /\ error' = e

Completed(step) == trace' = Append(trace, step)

\* line 183
ConfigureGradioUIEnvs ==
    /\ pc = "main"
    /\ env' = configure_gradio_ui_envs(env)
    /\ pc' = "load_config"
    /\ Completed("EnvPrepared")
    /\ UNCHANGED <<yaml, fileAtStart, config, dest, idx, log, error, thread,
                   server, exitCode, runs, firstStore, spawned, k8s_client>>

\* lines 187-190: the configuration file loads
ReloadConfig ==
    /\ pc = "load_config"
    /\ config' = Loaded(yaml)
    /\ pc' = "logging"
    /\ Completed("ConfigLoaded")
    /\ UNCHANGED <<yaml, fileAtStart, env, dest, idx, log, error, thread,
                   server, exitCode, runs, firstStore, spawned, k8s_client>>

\* lines 187-190: the configuration file is missing or invalid
ReloadConfigFail ==
    /\ pc = "load_config"
    /\ Abort(Exception("Exception", "reload_from_yaml_file", 0))
    /\ UNCHANGED <<yaml, fileAtStart, config, env, dest, idx, log, thread,
                   server, exitCode, runs, trace, firstStore, spawned, k8s_client>>

\* a start-up that goes from logging straight to the certificates
ConfigureLogging_then_certificates ==
    /\ pc = "logging"
    /\ pc' = "certs_copy"
    /\ Completed("LoggingReady")
    /\ UNCHANGED <<yaml, fileAtStart, config, env, dest, idx, log, error,
                   thread, server, exitCode, runs, firstStore, spawned,
                   k8s_client>>

\* lines 192-194
ConfigureLogging ==
    /\ pc = "logging"
    /\ pc' = "hf_envs"
    /\ Completed("LoggingReady")
    /\ UNCHANGED <<yaml, fileAtStart, config, env, dest, idx, log, error,
                   thread, server, exitCode, runs, firstStore,
                   spawned, k8s_client>>

ConfigureLoggingFail ==
    /\ pc = "logging"
    /\ Abort(Exception("Exception", "configure_logging", 0))
    /\ UNCHANGED <<yaml, fileAtStart, config, env, dest, idx, log, thread,
                   server, exitCode, runs, trace, firstStore, spawned, k8s_client>>

\* a start-up that launches the index thread before the certificate store
\* is generated
ConfigureHuggingFaceEnvs_then_thread ==
    /\ pc = "hf_envs"
    /\ env' = configure_hugging_face_envs(config.ols_config, env)
    /\ pc' = "thread_start"
    /\ Completed("CacheEnvSet")
    /\ UNCHANGED <<yaml, fileAtStart, config, dest, idx, log, error, thread,
                   server, exitCode, runs, firstStore, spawned, k8s_client>>

\* line 196
ConfigureHuggingFaceEnvs ==
    /\ pc = "hf_envs"
    /\ env' = configure_hugging_face_envs(config.ols_config, env)
    /\ pc' = "certs_copy"
    /\ Completed("CacheEnvSet")
    /\ UNCHANGED <<yaml, fileAtStart, config, dest, idx, log, error, thread,
                   server, exitCode, runs, firstStore, spawned, k8s_client>>

\* generate_certificates_file, lines 87-103: the base bundle is copied
CopyBundle ==
    /\ pc = "certs_copy"
    /\ dest' = copyfile(BaseBundle, dest)
    /\ idx' = 0
    /\ pc' = "certs_loop"
    /\ UNCHANGED <<yaml, fileAtStart, config, env, log, error, thread, server,
                   exitCode, runs, trace, firstStore, spawned, k8s_client>>

\* generate_certificates_file, line 103: the certificate directory is missing
\* or not writable
CopyBundleFail ==
    /\ pc = "certs_copy"
    /\ Abort(Exception("OSError", "copyfile", 0))
    /\ UNCHANGED <<yaml, fileAtStart, config, env, dest, idx, log, thread,
                   server, exitCode, runs, trace, firstStore, spawned, k8s_client>>

\* generate_certificates_file, lines 105-106: one iteration of the loop, the
\* call of add_ca_to_certificates_store on the next extra certificate
AddCA ==
    /\ pc = "certs_loop"
    /\ idx < Len(config.ols_config.extra_ca)
    /\ LET i == idx + 1
           r == add_ca_to_certificates_store(i, config.ols_config.extra_ca[i], dest)
       IN  /\ dest' = r.store
           /\ log' = IF r.warned THEN Append(log, i) ELSE log
           /\ IF r.error.type # "none"
              THEN Abort(r.error) /\ idx' = idx
              ELSE /\ idx' = i
                   /\ UNCHANGED <<pc, error>>
    /\ UNCHANGED <<yaml, fileAtStart, config, env, thread, server, exitCode,
                   runs, trace, firstStore, spawned, k8s_client>>

\* generate_certificates_file returns: the loop has run out of extras
GenerateCertificatesFileReturn ==
    /\ pc = "certs_loop"
    /\ idx = Len(config.ols_config.extra_ca)
    /\ pc' = "k8s_auth"
    /\ Completed("CertStoreReady")
    /\ firstStore' = IF firstStore.exists THEN firstStore ELSE dest
    /\ UNCHANGED <<yaml, fileAtStart, config, env, dest, idx, log, error,
                   thread, server, exitCode, runs, spawned, k8s_client>>

\* lines 202-210: the k8s branch only logs; the retrieval of the cluster id
\* that would initialize K8sClientSingleton is commented out, so k8s_client
\* stays as it is
K8sAuthStep ==
    /\ pc = "k8s_auth"
    /\ pc' = "query_redactor"
    /\ trace' = IF use_k8s_auth(config.ols_config)
                THEN Append(trace, "AuthReady") ELSE trace
    /\ UNCHANGED <<yaml, fileAtStart, config, env, dest, idx, log, error,
                   thread, server, exitCode, runs, firstStore,
                   spawned, k8s_client>>

\* line 213: the query redactor is built
QueryRedactor ==
    /\ pc = "query_redactor"
    /\ pc' = "thread_start"
    /\ Completed("SingletonsWarmed")
    /\ UNCHANGED <<yaml, fileAtStart, config, env, dest, idx, log, error,
                   thread, server, exitCode, runs, firstStore,
                   spawned, k8s_client>>

\* a start-up that catches the failure and goes on
QueryRedactorFail_caught ==
    /\ pc = "query_redactor"
    /\ error' = Exception("Exception", "query_redactor", 0)
    /\ pc' = "thread_start"
    /\ UNCHANGED <<yaml, fileAtStart, config, env, dest, idx, log, thread,
                   server, exitCode, runs, trace, firstStore, spawned, k8s_client>>

\* line 213: building the query redactor raises
QueryRedactorFail ==
    /\ pc = "query_redactor"
    /\ Abort(Exception("Exception", "query_redactor", 0))
    /\ UNCHANGED <<yaml, fileAtStart, config, env, dest, idx, log, thread,
                   server, exitCode, runs, trace, firstStore, spawned, k8s_client>>

\* lines 217-218
StartRagIndexThread ==
    /\ pc = "thread_start"
    /\ thread = "none"
    /\ thread' = "running"
    /\ spawned' = spawned + 1
    /\ pc' = "start_uvicorn"
    /\ Completed("BackgroundIndexLoad")
    /\ UNCHANGED <<yaml, fileAtStart, config, env, dest, idx, log, error,
                   server, exitCode, runs, firstStore, k8s_client>>

\* an index load that rewrites the trust store
LoadIndex_rewriting_store ==
    /\ thread = "running"
    /\ thread' = "done"
    /\ dest' = copyfile(BaseBundle, dest)
    /\ UNCHANGED <<yaml, fileAtStart, pc, config, env, idx, log, error,
                   server, exitCode, runs, trace, firstStore, spawned,
                   k8s_client>>

\* load_index, in rag_index_thread: the index loads
LoadIndex ==
    /\ thread = "running"
    /\ thread' = "done"
    /\ UNCHANGED <<yaml, fileAtStart, pc, config, env, dest, idx, log, error,
                   server, exitCode, runs, trace, firstStore, spawned, k8s_client>>

\* an index load whose failure takes the whole process down
LoadIndexFail_ending_process ==
    /\ thread = "running"
    /\ thread' = "failed"
    /\ pc' = "aborted"
    /\ error' = Exception("Exception", "load_index", 0)
    /\ server' = [server EXCEPT !.up = FALSE]
    /\ UNCHANGED <<yaml, fileAtStart, config, env, dest, idx, log, exitCode,
                   runs, trace, firstStore, spawned, k8s_client>>

\* load_index, in rag_index_thread: the load raises, and the thread ends
LoadIndexFail ==
    /\ thread = "running"
    /\ thread' = "failed"
    /\ UNCHANGED <<yaml, fileAtStart, pc, config, env, dest, idx, log, error,
                   server, exitCode, runs, trace, firstStore, spawned, k8s_client>>

\* a start_uvicorn that joins the index thread before it launches the server
StartUvicorn_after_join ==
    /\ pc = "start_uvicorn"
    /\ thread # "running"
    /\ LET c == config.ols_config
           ssl_version == get_ssl_version(c.tls_security_profile)
           ssl_ciphers == get_ciphers(c.tls_security_profile)
       IN  IF ~ssl_version.ok
           THEN /\ Abort(Exception(ssl_version.exc, "get_ssl_version", 0))
                /\ UNCHANGED <<server, trace>>
           ELSE IF ~ssl_ciphers.ok
           THEN /\ Abort(Exception(ssl_ciphers.exc, "get_ciphers", 0))
                /\ UNCHANGED <<server, trace>>
           ELSE /\ server' = [up |-> TRUE,
                              host |-> uvicorn_host(c),
                              port |-> uvicorn_port(c),
                              workers |-> uvicorn_workers(c),
                              ssl_version |-> ssl_version.value,
                              ssl_ciphers |-> ssl_ciphers.value]
                /\ pc' = "serving"
                /\ Completed("ServerRunning")
                /\ UNCHANGED error
    /\ UNCHANGED <<yaml, fileAtStart, config, env, dest, idx, log, thread,
                   exitCode, runs, firstStore, spawned, k8s_client>>

\* start_uvicorn, up to the point where uvicorn.run serves
StartUvicorn ==
    /\ pc = "start_uvicorn"
    /\ LET c == config.ols_config
           ssl_version == get_ssl_version(c.tls_security_profile)
           ssl_ciphers == get_ciphers(c.tls_security_profile)
       IN  IF ~ssl_version.ok
           THEN /\ Abort(Exception(ssl_version.exc, "get_ssl_version", 0))
                /\ UNCHANGED <<server, trace>>
           ELSE IF ~ssl_ciphers.ok
           THEN /\ Abort(Exception(ssl_ciphers.exc, "get_ciphers", 0))
                /\ UNCHANGED <<server, trace>>
           ELSE /\ server' = [up |-> TRUE,
                              host |-> uvicorn_host(c),
                              port |-> uvicorn_port(c),
                              workers |-> uvicorn_workers(c),
                              ssl_version |-> ssl_version.value,
                              ssl_ciphers |-> ssl_ciphers.value]
                /\ pc' = "serving"
                /\ Completed("ServerRunning")
                /\ UNCHANGED error
    /\ UNCHANGED <<yaml, fileAtStart, config, env, dest, idx, log, thread,
                   exitCode, runs, firstStore, spawned, k8s_client>>

\* uvicorn.run returns: the server was shut down
ServerShutdown ==
    /\ pc = "serving"
    /\ server' = [server EXCEPT !.up = FALSE]
    /\ pc' = "returned"
    /\ UNCHANGED <<yaml, fileAtStart, config, env, dest, idx, log, error,
                   thread, exitCode, runs, trace, firstStore,
                   spawned, k8s_client>>

\* the interpreter exits once the main thread has ended and the (non-daemon)
\* index thread is no longer running: 1 after an uncaught exception, else 0
ProcessExit ==
    /\ pc \in {"aborted", "returned"}
    /\ thread # "running"
    /\ exitCode = -1
    /\ exitCode' = IF pc = "aborted" THEN 1 ELSE 0
    /\ UNCHANGED <<yaml, fileAtStart, pc, config, env, dest, idx, log, error,
                   thread, server, runs, trace, firstStore,
                   spawned, k8s_client>>

\* the process is started again with the same configuration, over the
\* certificate directory as it was left or over a cleaned one
Restart ==
    /\ exitCode # -1
    /\ runs < MaxRuns
    /\ \E clean \in BOOLEAN :
          /\ dest' = IF clean THEN NoFile ELSE dest
          /\ fileAtStart' = IF clean THEN FALSE ELSE dest.exists
    /\ runs' = runs + 1
    /\ pc' = "main"
    /\ config' = NotLoaded
    /\ env' = EmptyEnv
    /\ idx' = 0
    /\ log' = <<>>
    /\ error' = NoError
    /\ thread' = "none"
    /\ server' = NoServer
    /\ exitCode' = -1
    /\ trace' = <<>>
    /\ spawned' = 0
    /\ k8s_client' = "uninitialized"
    /\ UNCHANGED <<yaml, firstStore>>

\* one run of the process
RunOnce ==
    \/ ConfigureGradioUIEnvs
    \/ ReloadConfig
    \/ ReloadConfigFail
    \/ ConfigureLogging
    \/ ConfigureLoggingFail
    \/ ConfigureHuggingFaceEnvs
    \/ CopyBundle
    \/ CopyBundleFail
    \/ AddCA
    \/ GenerateCertificatesFileReturn
    \/ K8sAuthStep
    \/ QueryRedactor
    \/ QueryRedactorFail
    \/ StartRagIndexThread
    \/ LoadIndex
    \/ LoadIndexFail
    \/ StartUvicorn
    \/ ServerShutdown
    \/ ProcessExit

Next ==
    \/ RunOnce
    \/ Restart

\* ---------------------------------------------------------- initial states
Start(y, d) ==
    /\ yaml = y
    /\ dest = d
    /\ fileAtStart = d.exists
    /\ pc = "main"
    /\ config = NotLoaded
    /\ env = EmptyEnv
    /\ idx = 0
    /\ log = <<>>
    /\ error = NoError
    /\ thread = "none"
    /\ server = NoServer
    /\ exitCode = -1
    /\ runs = 1
    /\ trace = <<>>
    /\ firstStore = NoFile
    /\ spawned = 0
    /\ k8s_client = "uninitialized"

\* the start-up sequence under every combination of the flags, over a clean
\* certificate directory or a stale file
SomeExtras ==
    {<<>>, <<File(<<Pem(MaxCert)>>)>>, <<Unreadable>>,
     <<File(<<Text, Pem(2)>>), File(<<Pem(MaxCert)>>)>>}
SomeProfiles == {NoProfile, Profile("ModernType", "None", <<>>),
                 Profile("NoSuchType", "None", <<>>)}
SomeRefContents == {NoRefContent, RefContent(""), RefContent("/models")}

Init ==
    \E extras \in SomeExtras, workers \in 1..MaxWorkers,
       local \in BOOLEAN, notls \in BOOLEAN, prof \in SomeProfiles,
       ref \in SomeRefContents, k8s \in BOOLEAN, d \in {NoFile, StaleFile} :
        Start(OLSConfig(extras, workers, local, notls, prof, ref, k8s), d)

Spec == Init /\ [][Next]_vars

\* the certificate store builder under every list of extra certificates: one
\* run of the process from a clean certificate directory
InitCerts ==
    \E extras \in SeqsUpTo(ExtraFiles, MaxExtras) :
        Start(OLSConfig(extras, 1, FALSE, FALSE, NoProfile, NoRefContent, FALSE),
              NoFile)

SpecCerts == InitCerts /\ [][RunOnce]_vars

\* the TLS profile resolver under every security profile
AllProfiles ==
    {NoProfile}
    \cup {Profile(ty, ver, cs) :
            ty \in TLSProfiles \cup {"None", "NoSuchType"},
            ver \in TLSProtocolVersions \cup {"None", "VersionSSL30"},
            cs \in {<<>>, <<"A", "B">>, <<"B", "A">>}}

InitTLS ==
    \E prof \in AllProfiles :
        Start(OLSConfig(<<File(<<Pem(MaxCert)>>)>>, 1, FALSE, FALSE, prof,
                        NoRefContent, FALSE),
              NoFile)

SpecTLS == InitTLS /\ [][Next]_vars

\* ------------------------------------------------------------- properties
IsPrefix(s, t) == Len(s) <= Len(t) /\ \A i \in 1..Len(s) : s[i] = t[i]

NoRepeat(s) == \A i, j \in 1..Len(s) : s[i] = s[j] => i = j

\* the certificate step of this process has completed
CertStoreReady == "CertStoreReady" \in Range(trace)

\* a certificate file that add_ca_to_certificates_store can load
Loadable(f) == f.readable /\ HasCertificate(f.blocks)

\* C1: the destination trust store never holds the same certificate twice,
\* in any state of the certificate step and after it.
C1_NoDuplicateRecords ==
    dest.exists => NoRepeat(load_pem_x509_certificates(dest.blocks))

\* C2: the running server was launched with exactly one worker, whatever
\* max_workers the configuration gives.
C2_SingleWorker == server.up => server.workers = 1

\* C3: once a start-up step has raised, the main thread is over, the server
\* is not and never was running in this process, and the process does not
\* exit with 0.
C3_FailFast ==
    error.type # "none" =>
        /\ pc = "aborted"
        /\ ~server.up
        /\ "ServerRunning" \notin Range(trace)
        /\ exitCode \in {-1, 1}

C3_FailedAtLastStepAndExited ==
    /\ error.type = "ConfigurationError"
    /\ error.raised_by = "get_ssl_version"
    /\ thread = "done"
    /\ exitCode = 1

\* C4: the steps this process has completed are an initial part of the fixed
\* order (AuthReady only with k8s auth), so none ran twice or before its
\* predecessor; a running server has the certificate store behind it.
StartupOrder ==
    <<"EnvPrepared", "ConfigLoaded", "LoggingReady", "CacheEnvSet",
      "CertStoreReady">>
    \o (IF use_k8s_auth(yaml) THEN <<"AuthReady">> ELSE <<>>)
    \o <<"SingletonsWarmed", "BackgroundIndexLoad", "ServerRunning">>

C4_FixedOrder ==
    /\ IsPrefix(trace, StartupOrder)
    /\ pc = "start_uvicorn" \/ server.up => CertStoreReady

C4_ServerRunningAfterAllSteps ==
    /\ server.up
    /\ use_k8s_auth(yaml)
    /\ trace = StartupOrder
    /\ Len(trace) = 9

\* C5 (as stated): a failure of add_ca_to_certificates_store is a
\* CertificateLoadError that names the offending path.
C5_CertificateLoadError ==
    error.raised_by = "add_ca_to_certificates_store" =>
        /\ error.type = "CertificateLoadError"
        /\ error.path = idx + 1

\* C5 (amended): an extra certificate that cannot be read or holds no
\* certificate is never passed over: every extra processed so far was
\* loadable, and the first one that is not ends the start-up with the
\* loader's own exception, an OSError naming the path when the file cannot be
\* read, a ValueError naming no path when nothing in it parses.
C5_BadCertificateHalts ==
    /\ idx <= Len(yaml.extra_ca)
    /\ \A j \in 1..idx : Loadable(yaml.extra_ca[j])
    /\ error.raised_by = "add_ca_to_certificates_store" =>
          /\ pc = "aborted"
          /\ ~server.up
          /\ ~CertStoreReady
          /\ idx < Len(yaml.extra_ca)
          /\ ~Loadable(yaml.extra_ca[idx + 1])
          /\ IF yaml.extra_ca[idx + 1].readable
             THEN error.type = "ValueError" /\ error.path = 0
             ELSE error.type = "OSError" /\ error.path = idx + 1

C5_SecondExtraUnparseable ==
    /\ error.raised_by = "add_ca_to_certificates_store"
    /\ error.type = "ValueError"
    /\ idx = 1
    /\ Len(dest.blocks) > Len(BaseBundle)
    /\ exitCode = 1

\* C6 (as stated): localhost and the plain port when both flags are set,
\* otherwise all interfaces and the TLS port.
C6_BothFlagsTogether ==
    server.up =>
        IF yaml.run_on_localhost /\ yaml.disable_tls
        THEN server.host = "localhost" /\ server.port = PLAIN_PORT
        ELSE server.host = "0.0.0.0" /\ server.port = TLS_PORT

\* C6 (amended): the two flags act separately: the host is localhost exactly
\* when run_on_localhost is set, the port is the plain port exactly when
\* disable_tls is set.
C6_HostAndPortSeparately ==
    server.up =>
        /\ server.host \in {"localhost", "0.0.0.0"}
        /\ server.port \in {PLAIN_PORT, TLS_PORT}
        /\ server.host = "localhost" <=> yaml.run_on_localhost
        /\ server.port = PLAIN_PORT <=> yaml.disable_tls

C6_LocalhostOnTlsPort ==
    /\ server.up
    /\ yaml.run_on_localhost
    /\ ~yaml.disable_tls
    /\ server.host = "localhost"
    /\ server.port = TLS_PORT

\* the bytes of the extras that are new when their turn comes: an extra is
\* new when its certificate is not among the certificates seen, which are
\* those of the base bundle and of every extra appended before it
RECURSIVE DistinctExtras(_, _)
DistinctExtras(seen, extras) ==
    IF extras = <<>> THEN <<>>
    ELSE LET data == Head(extras).blocks
         IN  IF load_pem_x509_certificate(data) \in seen
             THEN DistinctExtras(seen, Tail(extras))
             ELSE data \o DistinctExtras(
                              seen \cup Range(load_pem_x509_certificates(data)),
                              Tail(extras))

\* C7: after generate_certificates_file has succeeded the destination file is
\* the base bundle followed by the bytes, as read, of each extra certificate
\* that was not yet in the store, in the order of extra_ca, and nothing else.
C7_BasePlusDistinctExtras ==
    CertStoreReady =>
        /\ dest.exists
        /\ dest.blocks =
             BaseBundle \o DistinctExtras(
                               Range(load_pem_x509_certificates(BaseBundle)),
                               yaml.extra_ca)

C7_TwoExtrasAppendedInOrder ==
    /\ CertStoreReady
    /\ Len(yaml.extra_ca) = 2
    /\ yaml.extra_ca[1] # yaml.extra_ca[2]
    /\ dest.blocks = BaseBundle \o yaml.extra_ca[1].blocks \o yaml.extra_ca[2].blocks
    /\ Text \in Range(yaml.extra_ca[1].blocks)

\* C8: whenever the certificate step has completed, in the first run or in a
\* later one, over a clean directory or over whatever file was there, the
\* destination file is the one the first completed run produced.
C8_RebuiltIdentically == CertStoreReady => dest = firstStore

C8_SecondRunOverPreviousFile ==
    /\ runs = 2
    /\ fileAtStart
    /\ CertStoreReady
    /\ firstStore.exists
    /\ Len(yaml.extra_ca) = 2
    /\ Len(dest.blocks) > Len(BaseBundle)

\* the next step is add_ca_to_certificates_store on an extra whose certificate
\* is already in the store
NextExtraIsDuplicate ==
    /\ pc = "certs_loop"
    /\ idx < Len(yaml.extra_ca)
    /\ Loadable(yaml.extra_ca[idx + 1])
    /\ dest.exists
    /\ load_pem_x509_certificate(yaml.extra_ca[idx + 1].blocks)
          \in Range(load_pem_x509_certificates(dest.blocks))

\* C9: adding an extra certificate that is already in the store leaves the
\* file as it is, raises nothing, warns, and hands over to the next extra;
\* with the same new certificate given twice the file ends as the base bundle
\* followed by one copy of it.
C9_DuplicateLeftOut ==
    /\ [][NextExtraIsDuplicate =>
            /\ dest' = dest
            /\ error' = NoError
            /\ pc' = "certs_loop"
            /\ idx' = idx + 1
            /\ log' = Append(log, idx + 1)]_vars
    /\ [](/\ CertStoreReady
          /\ Len(yaml.extra_ca) = 2
          /\ yaml.extra_ca[1] = yaml.extra_ca[2]
          /\ load_pem_x509_certificate(yaml.extra_ca[1].blocks)
                \notin Range(load_pem_x509_certificates(BaseBundle))
          => dest.blocks = BaseBundle \o yaml.extra_ca[1].blocks)

C9_DuplicateThenNewExtra ==
    /\ CertStoreReady
    /\ Len(yaml.extra_ca) = 2
    /\ log = <<1>>
    /\ dest.blocks = BaseBundle \o yaml.extra_ca[2].blocks

\* a profile whose profile_type is set to something that is no TLS profile
Unrecognized(sec_profile) ==
    /\ sec_profile.present
    /\ sec_profile.profile_type \notin TLSProfiles \cup {"None"}

\* C10: with an unrecognized profile_type both resolvers raise a
\* ConfigurationError and return no default, the server never runs, and the
\* start-up, once it has reached start_uvicorn, ends with that error.
C10_UnrecognizedProfileFails ==
    LET p == yaml.tls_security_profile
    IN  Unrecognized(p) =>
            /\ get_ssl_version(p) = Raise("ConfigurationError", "")
            /\ get_ciphers(p) = Raise("ConfigurationError", <<>>)
            /\ ~server.up
            /\ pc # "serving"
            /\ "BackgroundIndexLoad" \in Range(trace) /\ pc # "start_uvicorn"
                  => /\ pc = "aborted"
                     /\ error.type = "ConfigurationError"
                     /\ error.raised_by = "get_ssl_version"

C10_UnrecognizedProfileAborted ==
    /\ Unrecognized(yaml.tls_security_profile)
    /\ yaml.tls_security_profile.min_tls_version = "VersionTLS12"
    /\ pc = "aborted"
    /\ error.type = "ConfigurationError"

\* C11: for a profile that is absent or has no profile_type both resolvers
\* return the defaults and raise nothing, whatever min_tls_version and ciphers
\* the profile carries (a version no table maps included); the server is
\* launched with the defaults and the start-up never ends in a resolver.
C11_DefaultProfileGivesDefaults ==
    LET p == yaml.tls_security_profile
    IN  IsDefaultProfile(p) =>
            /\ get_ssl_version(p) = Ret(DEFAULT_SSL_VERSION)
            /\ get_ciphers(p) = Ret(DEFAULT_SSL_CIPHERS)
            /\ error.raised_by \notin {"get_ssl_version", "get_ciphers"}
            /\ "ServerRunning" \in Range(trace) =>
                  /\ server.ssl_version = DEFAULT_SSL_VERSION
                  /\ server.ssl_ciphers = DEFAULT_SSL_CIPHERS

C11_UnsetTypeWithOtherFieldsServes ==
    /\ yaml.tls_security_profile.present
    /\ yaml.tls_security_profile.profile_type = "None"
    /\ yaml.tls_security_profile.min_tls_version = "VersionSSL30"
    /\ yaml.tls_security_profile.ciphers = <<"A", "B">>
    /\ server.up
    /\ server.ssl_version = DEFAULT_SSL_VERSION
    /\ server.ssl_ciphers = DEFAULT_SSL_CIPHERS

\* C12: a process starts at most one thread, exactly one by the time it
\* reaches start_uvicorn, and start_uvicorn can take its step whatever the
\* state of that thread: the main path does not wait for the index load.
C12_OneThreadNeverAwaited ==
    /\ spawned <= 1
    /\ spawned = 1 <=> thread # "none"
    /\ spawned = 1 <=> "BackgroundIndexLoad" \in Range(trace)
    /\ pc \in {"start_uvicorn", "serving", "returned"} => spawned = 1
    /\ pc = "start_uvicorn" => ENABLED StartUvicorn
    /\ pc = "serving" => ENABLED ServerShutdown

C12_ServingWhileIndexLoads ==
    /\ server.up
    /\ pc = "serving"
    /\ thread = "running"
    /\ spawned = 1

\* the configuration names an embeddings model path
HasEmbeddingsPath(ols_config) ==
    /\ ols_config.reference_content.present
    /\ ols_config.reference_content.embeddings_model_path # ""

\* the main thread is at the certificate step or past it
AtOrPastCertificates ==
    pc \in {"certs_copy", "certs_loop", "k8s_auth", "query_redactor",
            "thread_start", "start_uvicorn", "serving", "returned"}

\* C13: with an embeddings model path configured, TRANSFORMERS_CACHE and
\* TRANSFORMERS_OFFLINE are set when the certificate step begins and in every
\* later state of the process, so before the query redactor is built and
\* before the index thread exists.
C13_CacheEnvBeforeCertificates ==
    HasEmbeddingsPath(yaml) =>
        /\ AtOrPastCertificates \/ thread # "none"
              => "CacheEnvSet" \in Range(trace)
        /\ "CacheEnvSet" \in Range(trace) =>
              /\ env["TRANSFORMERS_CACHE"] =
                     yaml.reference_content.embeddings_model_path
              /\ env["TRANSFORMERS_OFFLINE"] = "1"

C13_CacheEnvSetAtCertificateStep ==
    /\ HasEmbeddingsPath(yaml)
    /\ pc = "certs_copy"
    /\ env["TRANSFORMERS_CACHE"] = "/models"
    /\ env["TRANSFORMERS_OFFLINE"] = "1"
    /\ dest = NoFile

\* C14: with k8s auth enabled the server runs only over an initialized
\* authentication backend.
C14_AuthInitializedBeforeServer ==
    server.up /\ use_k8s_auth(yaml) => k8s_client = "initialized"

\* C15: from one state of a process in which the certificate step has
\* completed to the next, the trust-store file is the same, whichever of the
\* main thread and the index thread takes the step.
C15_StoreUntouchedAfterCertificates ==
    [][CertStoreReady /\ CertStoreReady' => dest' = dest]_vars

C15_ServerAndThreadOverFinishedStore ==
    /\ CertStoreReady
    /\ Len(yaml.extra_ca) = 2
    /\ Len(dest.blocks) > Len(BaseBundle)
    /\ thread = "done"
    /\ pc = "returned"

\* the environment configure_hugging_face_envs is to leave
ExpectedHuggingFaceEnv(ols_config, e) ==
    IF HasEmbeddingsPath(ols_config)
    THEN [n \in EnvNames |->
            CASE n = "TRANSFORMERS_CACHE" ->
                     ols_config.reference_content.embeddings_model_path
              [] n = "TRANSFORMERS_OFFLINE" -> "1"
              [] OTHER -> e[n]]
    ELSE e

\* C16: the step of configure_hugging_face_envs sets TRANSFORMERS_CACHE to
\* the embeddings model path and TRANSFORMERS_OFFLINE to "1" when the
\* configuration has a non-empty path and leaves the environment as it is
\* with no reference content or an empty path; called without a
\* configuration it leaves the environment as it is too.
C16_HuggingFaceEnvs ==
    /\ [][pc = "hf_envs" =>
             env' = ExpectedHuggingFaceEnv(config.ols_config, env)]_vars
    /\ [](configure_hugging_face_envs(NoOLSConfig, env) = env)

C16_EmptyPathLeavesEnv ==
    /\ yaml.reference_content.present
    /\ yaml.reference_content.embeddings_model_path = ""
    /\ "CacheEnvSet" \in Range(trace)
    /\ env["TRANSFORMERS_CACHE"] = Unset
    /\ env["TRANSFORMERS_OFFLINE"] = Unset
    /\ env["GRADIO_ANALYTICS_ENABLED"] = "false"

\* C17: the step in which the index load fails changes nothing of the main
\* path: not its position, not the server, not its error, not the exit code
\* and not the trust store; with the thread failed, start_uvicorn can still
\* take its step, a running server stays up, and a main path that ended did
\* not end by the thread's failure.
C17_IndexFailureConfined ==
    /\ [][thread # "failed" /\ thread' = "failed" =>
             /\ pc' = pc
             /\ server' = server
             /\ error' = error
             /\ exitCode' = exitCode
             /\ trace' = trace
             /\ dest' = dest]_vars
    /\ [](thread = "failed" =>
             /\ pc = "start_uvicorn" => ENABLED StartUvicorn
             /\ pc = "serving" => server.up
             /\ error.raised_by # "load_index"
             /\ pc = "returned" /\ exitCode # -1 => exitCode = 0)

C17_ServingAfterIndexFailure ==
    /\ thread = "failed"
    /\ pc = "serving"
    /\ server.up
    /\ error = NoError

====
